---- MODULE Spec2Model ----
(***************************************************************************)
(* The restaurant review tools of fastapi_app/mcp_server.py:               *)
(* list_restaurants_mcp, get_details_mcp, create_review_mcp and            *)
(* create_restaurant_mcp, over the Restaurant and Review tables.           *)
(*                                                                         *)
(* Spec      every tool call runs from its first line to its return        *)
(*           before the next starts (any sequence of calls).               *)
(* SpecConc  create_review_mcp calls run in worker threads, one store      *)
(*           statement at a time, interleaved with each other.             *)
(***************************************************************************)
EXTENDS Integers, Sequences, FiniteSets, TLC

\* ------------------------------------------------------------- bounds
MaxRestaurants == 2
MaxReviews == 3
NumCallers == 2

\* ------------------------------------------------------------- inputs
Names == {"Cafe"}
Addresses == {"1 Main St"}
Descriptions == {"cosy"}
Users == {"ann"}
Texts == {"fine"}
Ratings == {3, 4, 5}
\* identifiers a caller may pass: those of Restaurants that exist, and those of
\* Restaurants that do not exist (yet)
RestaurantIds == 1..MaxRestaurants
Callers == 1..NumCallers

\* Python None in an integer or timestamp field (generated ids and the
\* clock's readings are positive)
None == 0
\* SQL NULL / Python None where a number with a fraction is expected
NULL == <<>>

VARIABLES
    restaurants,        \* the Restaurant table: a set of rows
    reviews,            \* the Review table: a set of rows
    restaurant_id_seq,  \* last value of the Restaurant id sequence
    review_id_seq,      \* last value of the Review id sequence
    now,                \* the next reading of datetime.now()
    ret,                \* the last tool call that ran whole: name, arguments, result
    returned,           \* every record a create_review_mcp call has returned
    pc,                 \* SpecConc: where each worker thread stands
    review,             \* SpecConc: each thread's Review object
    inserted,           \* SpecConc: the id each thread's own INSERT generated
    result              \* SpecConc: what each thread's call returned

store == <<restaurants, reviews, restaurant_id_seq, review_id_seq, now>>
threads == <<pc, review, inserted, result>>
vars == <<restaurants, reviews, restaurant_id_seq, review_id_seq, now, ret, returned,
          pc, review, inserted, result>>

\* ------------------------------------------------------------ helpers
Range(s) == {s[i] : i \in 1..Len(s)}

RECURSIVE GCD(_, _)
GCD(a, b) == IF b = 0 THEN a ELSE GCD(b, a % b)

\* the number n/d, d > 0, n >= 0, in lowest terms
Rat(n, d) == LET g == GCD(n, d) IN <<n \div g, d \div g>>

RatDiv(x, k) == Rat(x[1], x[2] * k)
RatMul(x, k) == Rat(x[1] * k, x[2])

RECURSIVE SumRating(_)
SumRating(S) ==
    IF S = {} THEN 0
    ELSE LET v == CHOOSE x \in S : TRUE IN v.rating + SumRating(S \ {v})

\* the orders in which a query without ORDER BY may hand back the rows S
QueryOrders(S) ==
    {s \in [1..Cardinality(S) -> S] : \A i, j \in 1..Cardinality(S) : s[i] = s[j] => i = j}

\* Python's float(): the mean is kept as an exact fraction
float(x) == x

\* Python's round() of a fraction: to the nearest integer, a tie to the even one
round(x) ==
    LET q == x[1] \div x[2]
        r == x[1] % x[2]
    IN IF 2 * r < x[2] THEN q
       ELSE IF 2 * r > x[2] THEN q + 1
       ELSE IF q % 2 = 0 THEN q ELSE q + 1

\* ------------------------------------------------------ the entity store
NextRestaurantId == restaurant_id_seq + 1
NextReviewId == review_id_seq + 1

\* ------------------------------------------------- list_restaurants_mcp
\* Restaurant LEFT OUTER JOIN Review ON Review.restaurant = Restaurant.id:
\* a row's review is <<v>> for a matching Review v, <<>> (all columns NULL)
\* for a Restaurant that matches none
\* the join written on the Review's own id
JoinConditionOnReviewId(r, v) == v.id = r.id

JoinCondition(r, v) == v.restaurant = r.id

\* .join() in place of .outerjoin(): only the matching pairs
InnerJoin ==
    {[restaurant |-> r, review |-> <<v>>] :
        <<r, v>> \in {p \in restaurants \X reviews : JoinCondition(p[1], p[2])}}

OuterJoin ==
    {[restaurant |-> r, review |-> <<v>>] :
        <<r, v>> \in {p \in restaurants \X reviews : JoinCondition(p[1], p[2])}}
    \cup {[restaurant |-> r, review |-> <<>>] :
        r \in {x \in restaurants : \A v \in reviews : ~JoinCondition(x, v)}}

\* the joined rows of one GROUP BY Restaurant.id group
Group(id) == {j \in OuterJoin : j.restaurant.id = id}

\* the Review side of a group's rows, NULL rows left out as AVG and COUNT do
NonNull(G) == {j.review[1] : j \in {k \in G : k.review # <<>>}}

\* func.avg(Review.rating)
avg(G) ==
    IF NonNull(G) = {} THEN NULL
    ELSE Rat(SumRating(NonNull(G)), Cardinality(NonNull(G)))

\* func.count(Review.id)
count(G) == Cardinality(NonNull(G))

\* session.exec(statement).all(): one result row per group
Statement ==
    {[restaurant |-> j.restaurant,
      avg_rating |-> avg(Group(j.restaurant.id)),
      review_count |-> count(Group(j.restaurant.id))] : j \in OuterJoin}

stars_percent(avg_rating, review_count) ==
    IF review_count > 0 /\ avg_rating # NULL
    THEN round(RatMul(RatDiv(float(avg_rating), 5), 100))
    ELSE 0

\* the dict built for one result row
StatsRow(g) ==
    [id |-> g.restaurant.id,
     name |-> g.restaurant.name,
     street_address |-> g.restaurant.street_address,
     description |-> g.restaurant.description,
     avg_rating |-> IF g.avg_rating # NULL THEN float(g.avg_rating) ELSE NULL,
     review_count |-> g.review_count,
     stars_percent |-> stars_percent(g.avg_rating, g.review_count)]

\* what list_restaurants_mcp may return in the current store
ListResults ==
    {[i \in 1..Len(results) |-> StatsRow(results[i])] : results \in QueryOrders(Statement)}

list_restaurants_mcp ==
    /\ \E rows \in ListResults :
          ret' = [op |-> "list_restaurants", args |-> <<>>, value |-> rows]
    /\ UNCHANGED <<store, returned, threads>>

\* ------------------------------------------------------ get_details_mcp
\* select(Restaurant).where(Restaurant.id == restaurant_id)
RestaurantRows(restaurant_id) == {r \in restaurants : r.id = restaurant_id}

\* select(Review) with the where clause left out
AllReviewRows(restaurant_id) == reviews

\* select(Review).where(Review.restaurant == restaurant_id)
ReviewRows(restaurant_id) == {v \in reviews : v.restaurant = restaurant_id}

NotFound == [found |-> FALSE]

\* what get_details_mcp(restaurant_id) may return in the current store
DetailResults(restaurant_id) ==
    IF RestaurantRows(restaurant_id) = {} THEN {NotFound}
    ELSE {[found |-> TRUE,
           restaurant |-> r,
           reviews |-> rs] :
             r \in RestaurantRows(restaurant_id),
             rs \in QueryOrders(ReviewRows(restaurant_id))}

get_details_mcp(restaurant_id) ==
    /\ \E d \in DetailResults(restaurant_id) :
          ret' = [op |-> "get_details", args |-> <<restaurant_id>>, value |-> d]
    /\ UNCHANGED <<store, returned, threads>>

\* ---------------------------------------------------- create_review_mcp
\* int(rating): the dispatcher hands rating over as an integer already
int(x) == x

\* the Review object with review.restaurant never assigned
NewReviewNoRestaurant(restaurant_id, user_name, rating, review_text) ==
    [id |-> None,
     restaurant |-> None,
     user_name |-> user_name,
     rating |-> int(rating),
     review_text |-> review_text,
     review_date |-> now]

\* the Review object before it is flushed: no id yet
NewReview(restaurant_id, user_name, rating, review_text) ==
    [id |-> None,
     restaurant |-> restaurant_id,
     user_name |-> user_name,
     rating |-> int(rating),
     review_text |-> review_text,
     review_date |-> now]

\* session.commit(): the INSERT gives the row the sequence's next value
InsertedReview(v) == [v EXCEPT !.id = NextReviewId]

\* session.add(obj); session.commit(): the row joins the table
commit(table, row) == table \cup {row}

\* the row read back as the table's newest one, not by the object's own key
RefreshedLatest(table, obj) == CHOOSE row \in table : \A other \in table : other.id <= row.id

\* session.refresh(review): the object's row, read back by its primary key
Refreshed(table, obj) == CHOOSE row \in table : row.id = obj.id

\* create_review_mcp as an upsert: a user's earlier review of the same
\* restaurant is replaced
create_review_mcp_upsert(restaurant_id, user_name, rating, review_text) ==
    /\ review_id_seq < MaxReviews
    /\ LET v == InsertedReview(NewReview(restaurant_id, user_name, rating, review_text))
           kept == {x \in reviews : x.restaurant # restaurant_id \/ x.user_name # user_name}
       IN /\ reviews' = commit(kept, v)
          /\ ret' = [op |-> "create_review",
                     args |-> <<restaurant_id, user_name, rating, review_text>>,
                     value |-> Refreshed(reviews', v)]
          /\ returned' = returned \cup {Refreshed(reviews', v)}
    /\ review_id_seq' = NextReviewId
    /\ now' = now + 1
    /\ UNCHANGED <<restaurants, restaurant_id_seq, threads>>

create_review_mcp(restaurant_id, user_name, rating, review_text) ==
    /\ review_id_seq < MaxReviews
    /\ LET v == InsertedReview(NewReview(restaurant_id, user_name, rating, review_text))
       IN /\ reviews' = commit(reviews, v)
          /\ ret' = [op |-> "create_review",
                     args |-> <<restaurant_id, user_name, rating, review_text>>,
                     value |-> Refreshed(reviews', v)]
          /\ returned' = returned \cup {Refreshed(reviews', v)}
    /\ review_id_seq' = NextReviewId
    /\ now' = now + 1
    /\ UNCHANGED <<restaurants, restaurant_id_seq, threads>>

\* ------------------------------------------------ create_restaurant_mcp
NewRestaurant(restaurant_name, street_address, description) ==
    [id |-> None,
     name |-> restaurant_name,
     street_address |-> street_address,
     description |-> description]

InsertedRestaurant(r) == [r EXCEPT !.id = NextRestaurantId]

create_restaurant_mcp(restaurant_name, street_address, description) ==
    /\ restaurant_id_seq < MaxRestaurants
    /\ LET r == InsertedRestaurant(NewRestaurant(restaurant_name, street_address, description))
       IN /\ restaurants' = commit(restaurants, r)
          /\ ret' = [op |-> "create_restaurant",
                     args |-> <<restaurant_name, street_address, description>>,
                     value |-> Refreshed(restaurants', r)]
    /\ restaurant_id_seq' = NextRestaurantId
    /\ UNCHANGED <<reviews, review_id_seq, now, returned, threads>>

\* ---------------------------------------------------------------- Spec
Init ==
    /\ restaurants = {}
    /\ reviews = {}
    /\ restaurant_id_seq = 0
    /\ review_id_seq = 0
    /\ now = 1
    /\ ret = [op |-> "none", args |-> <<>>, value |-> <<>>]
    /\ returned = {}
    /\ pc = [c \in Callers |-> "idle"]
    /\ review = [c \in Callers |-> None]
    /\ inserted = [c \in Callers |-> None]
    /\ result = [c \in Callers |-> None]

Next ==
    \/ list_restaurants_mcp
    \/ \E restaurant_id \in RestaurantIds : get_details_mcp(restaurant_id)
    \/ \E restaurant_id \in RestaurantIds, user_name \in Users,
          rating \in Ratings, review_text \in Texts :
          create_review_mcp(restaurant_id, user_name, rating, review_text)
    \/ \E restaurant_name \in Names, street_address \in Addresses,
          description \in Descriptions :
          create_restaurant_mcp(restaurant_name, street_address, description)

Spec == Init /\ [][Next]_vars

\* ------------------------------------------------------------ SpecConc
\* create_review_mcp in a worker thread (asyncio.to_thread), one statement
\* of sync() at a time.

\* lines 73-78: the Review object is built; datetime.now() is read
build(c, restaurant_id, user_name, rating, review_text) ==
    /\ pc[c] = "idle"
    /\ review' = [review EXCEPT ![c] = NewReview(restaurant_id, user_name, rating, review_text)]
    /\ now' = now + 1
    /\ pc' = [pc EXCEPT ![c] = "built"]
    /\ UNCHANGED <<restaurants, reviews, restaurant_id_seq, review_id_seq,
                   ret, returned, inserted, result>>

\* lines 79-80: session.add(review); session.commit(). The INSERT draws the
\* id and returns it to the session in one statement; the object's other
\* attributes are expired until they are loaded again
add_commit(c) ==
    /\ pc[c] = "built"
    /\ reviews' = commit(reviews, InsertedReview(review[c]))
    /\ review_id_seq' = NextReviewId
    /\ review' = [review EXCEPT ![c] = InsertedReview(review[c])]
    /\ inserted' = [inserted EXCEPT ![c] = NextReviewId]
    /\ pc' = [pc EXCEPT ![c] = "committed"]
    /\ UNCHANGED <<restaurants, restaurant_id_seq, now, ret, returned, result>>

\* lines 81-82: session.refresh(review); return review.dict(). The dict is
\* built from the thread's own object, which no other thread reads or writes
refresh_return(c) ==
    /\ pc[c] = "committed"
    /\ review' = [review EXCEPT ![c] = Refreshed(reviews, review[c])]
    /\ result' = [result EXCEPT ![c] = review'[c]]
    /\ returned' = returned \cup {review'[c]}
    /\ pc' = [pc EXCEPT ![c] = "returned"]
    /\ UNCHANGED <<store, ret, inserted>>

NextConc ==
    \/ \E c \in Callers, restaurant_id \in RestaurantIds, user_name \in Users,
          rating \in Ratings, review_text \in Texts :
          build(c, restaurant_id, user_name, rating, review_text)
    \/ \E c \in Callers : add_commit(c)
    \/ \E c \in Callers : refresh_return(c)
    \/ \E restaurant_name \in Names, street_address \in Addresses,
          description \in Descriptions :
          create_restaurant_mcp(restaurant_name, street_address, description)

SpecConc == Init /\ [][NextConc]_vars

\* -------------------------------------------------------------- claims
Rows == 1..Len(ret.value)

\* the Reviews of the store whose restaurant is id
ReviewsOf(id) == {v \in reviews : v.restaurant = id}

\* C1: list restaurants with stats returns exactly one record for every
\* Restaurant of the store, each with that Restaurant's fields, and the record
\* of a Restaurant with no Reviews has review_count = 0, avg_rating = null and
\* stars_percent = 0.
C1_ListHasEveryRestaurant ==
    ret.op = "list_restaurants" =>
        /\ Len(ret.value) = Cardinality(restaurants)
        /\ \A r \in restaurants :
              /\ Cardinality({i \in Rows : ret.value[i].id = r.id}) = 1
              /\ \A i \in Rows :
                    ret.value[i].id = r.id =>
                        /\ ret.value[i].name = r.name
                        /\ ret.value[i].street_address = r.street_address
                        /\ ret.value[i].description = r.description
                        /\ ReviewsOf(r.id) = {} =>
                              /\ ret.value[i].review_count = 0
                              /\ ret.value[i].avg_rating = NULL
                              /\ ret.value[i].stars_percent = 0

\* a list that holds a Restaurant without Reviews beside one with Reviews
C1_Witness ==
    /\ ret.op = "list_restaurants"
    /\ \E r \in restaurants : ReviewsOf(r.id) = {}
    /\ \E r \in restaurants : ReviewsOf(r.id) # {}
    /\ \E i \in Rows : ret.value[i].review_count = 0 /\ ret.value[i].avg_rating = NULL

\* s is the integer nearest to 20 * n / d, the even one of two equally near
NearestTo20Times(s, n, d) ==
    LET gap == IF s * d >= 20 * n THEN s * d - 20 * n ELSE 20 * n - s * d
    IN /\ 2 * gap <= d
       /\ 2 * gap = d => s % 2 = 0

\* C2: the record of a Restaurant with at least one Review has review_count =
\* the number of Reviews whose restaurant is its id, avg_rating = the mean of
\* their ratings and stars_percent = round((avg_rating / 5.0) * 100); ratings
\* 3, 4, 5 give 4.0, 3 and 80. Reviews of other restaurant ids do not count.
C2_StatsOfReviewedRestaurant ==
    ret.op = "list_restaurants" =>
        \A i \in Rows :
            LET row == ret.value[i]
                mine == ReviewsOf(row.id)
            IN mine # {} =>
                /\ row.review_count = Cardinality(mine)
                /\ row.avg_rating # NULL
                /\ row.avg_rating[2] > 0
                /\ row.avg_rating[1] * Cardinality(mine) = SumRating(mine) * row.avg_rating[2]
                /\ NearestTo20Times(row.stars_percent, row.avg_rating[1], row.avg_rating[2])
                /\ (Cardinality(mine) = 3 /\ {v.rating : v \in mine} = {3, 4, 5}) =>
                      /\ row.avg_rating = <<4, 1>>
                      /\ row.review_count = 3
                      /\ row.stars_percent = 80

\* the list after ratings 3, 4 and 5 were given to one Restaurant
C2_Witness ==
    /\ ret.op = "list_restaurants"
    /\ \E i \in Rows :
          /\ {v.rating : v \in ReviewsOf(ret.value[i].id)} = {3, 4, 5}
          /\ ret.value[i].review_count = 3
          /\ ret.value[i].stars_percent = 80

\* a list where a Restaurant's mean is not whole and Reviews of another id exist
C2_WitnessRounded ==
    /\ ret.op = "list_restaurants"
    /\ \E i \in Rows :
          /\ ret.value[i].avg_rating = <<10, 3>>
          /\ ret.value[i].stars_percent = 67

\* C3 (as claimed): right after create restaurant returned R with id i, get
\* restaurant details on i returns R's fields and an empty review list, whatever
\* calls came before.
C3_CreatedRestaurantHasNoReviews ==
    ret.op = "create_restaurant" =>
        \A d \in DetailResults(ret.value.id) :
            /\ d.found
            /\ d.restaurant = ret.value
            /\ d.reviews = <<>>

\* C4 (as claimed): create review returns a record with the given rating, a
\* review_date and a generated id, and every later get restaurant details on
\* its restaurant_id returns a reviews list that includes it.
C4_ReviewSeenInDetails ==
    /\ ret.op = "create_review" =>
          /\ ret.value.rating = ret.args[3]
          /\ ret.value.review_date # None
          /\ ret.value.id # None
    /\ ret.op = "get_details" =>
          \A v \in returned :
              v.restaurant = ret.args[1] =>
                  /\ ret.value.found
                  /\ v \in Range(ret.value.reviews)

\* C5: in every interleaving of concurrent create review calls, a call that
\* has returned got the id its own INSERT generated and the record of its own
\* arguments, no two calls got the same id, and once all have returned, get
\* restaurant details on a Restaurant shows every review created for it.
C5_ConcurrentCreatesKeepTheirIds ==
    /\ \A c \in Callers :
          pc[c] = "returned" =>
              /\ result[c].id = inserted[c]
              /\ result[c].id # None
              /\ result[c] \in reviews
          /\ \A e \in Callers \ {c} : pc[e] = "returned" => result[e].id # result[c].id
    /\ (\A c \in Callers : pc[c] = "returned") =>
          \A r \in restaurants :
              \A d \in DetailResults(r.id) :
                  /\ d.found
                  /\ \A c \in Callers :
                        result[c].restaurant = r.id => result[c] \in Range(d.reviews)
                  /\ Len(d.reviews) = Cardinality({c \in Callers : result[c].restaurant = r.id})

\* every call has returned and all of them reviewed the same, existing Restaurant
C5_Witness ==
    /\ \A c \in Callers : pc[c] = "returned"
    /\ \E r \in restaurants : \A c \in Callers : result[c].restaurant = r.id
    /\ \E c \in Callers : inserted[c] # c

\* C6: get restaurant details with an id that matches no Restaurant returns
\* the not-found result, also when Reviews with that restaurant value exist;
\* with an id that matches it returns that Restaurant's fields and exactly the
\* Reviews whose restaurant is the id.
C6_DetailsOrNotFound ==
    ret.op = "get_details" =>
        IF \A r \in restaurants : r.id # ret.args[1]
        THEN ret.value = NotFound
        ELSE /\ ret.value.found
             /\ ret.value.restaurant \in restaurants
             /\ ret.value.restaurant.id = ret.args[1]
             /\ Range(ret.value.reviews) = ReviewsOf(ret.args[1])
             /\ Len(ret.value.reviews) = Cardinality(ReviewsOf(ret.args[1]))

\* not found, although a Review names the id
C6_Witness ==
    /\ ret.op = "get_details"
    /\ ~ret.value.found
    /\ ReviewsOf(ret.args[1]) # {}

\* found, with Reviews of its own while another id has Reviews too
C6_WitnessFound ==
    /\ ret.op = "get_details"
    /\ ret.value.found
    /\ ret.value.reviews # <<>>
    /\ reviews # ReviewsOf(ret.args[1])

\* C7 (as claimed): list restaurants with stats returns its records in
\* ascending order of Restaurant id.
C7_ListOrderedById ==
    ret.op = "list_restaurants" =>
        \A i, j \in Rows : i < j => ret.value[i].id < ret.value[j].id

\* C8 (as claimed): a read changes nothing in the store, and a second read of
\* the same kind with the same argument and no write between returns what
\* the first returned: the same sequence of records from list restaurants with
\* stats, the same Restaurant and the same set of Reviews from get restaurant
\* details.
C8_ReadsIdempotent ==
    [][/\ ret'.op = "list_restaurants" =>
             /\ store' = store
             /\ \A rows \in ListResults' : rows = ret'.value
       /\ ret'.op = "get_details" =>
             /\ store' = store
             /\ \A id \in RestaurantIds :
                   ret'.args[1] = id =>
                       \A d \in DetailResults(id)' :
                           /\ d.found = ret'.value.found
                           /\ d.found =>
                                 /\ d.restaurant = ret'.value.restaurant
                                 /\ Range(d.reviews) = Range(ret'.value.reviews)]_vars

\* C9: create review does not look the Restaurant up: with any restaurant_id,
\* matching or not, the call can be made, inserts a Review whose restaurant is
\* that id and returns it.
C9_ReviewOfAnyRestaurantId ==
    /\ ret.op = "create_review" =>
          /\ ret.value \in reviews
          /\ ret.value.restaurant = ret.args[1]
          /\ ret.value.id # None
    /\ review_id_seq < MaxReviews =>
          \A restaurant_id \in RestaurantIds, user_name \in Users,
             rating \in Ratings, review_text \in Texts :
             ENABLED create_review_mcp(restaurant_id, user_name, rating, review_text)

\* a Review was created and returned for an id no Restaurant has
C9_Witness ==
    /\ ret.op = "create_review"
    /\ RestaurantRows(ret.args[1]) = {}
    /\ ret.value \in reviews
    /\ ret.value.restaurant = ret.args[1]

UniqueIds(table) == \A x, y \in table : x.id = y.id => x = y

\* C10: create restaurant adds one Restaurant and leaves every Review and
\* every earlier Restaurant as it was; create review adds one Review and
\* leaves every Restaurant and every earlier Review as it was; no step updates
\* or deletes a record, and ids stay unique.
C10_CreatesOnlyAdd ==
    [][/\ restaurants \subseteq restaurants'
       /\ reviews \subseteq reviews'
       /\ ret'.op = "create_restaurant" =>
             /\ restaurants' \ restaurants = {ret'.value}
             /\ ret'.value \notin restaurants
             /\ reviews' = reviews
       /\ ret'.op = "create_review" =>
             /\ reviews' \ reviews = {ret'.value}
             /\ ret'.value \notin reviews
             /\ restaurants' = restaurants
       /\ UniqueIds(restaurants')
       /\ UniqueIds(reviews')]_vars

\* a Review was added to a store that already held a Review and a Restaurant
C10_Witness ==
    /\ ret.op = "create_review"
    /\ Cardinality(reviews) >= 2
    /\ restaurants # {}
    /\ \E v \in reviews : v.restaurant = ret.value.restaurant /\ v # ret.value

====
